---- MODULE Spec2Model ----
(***************************************************************************)
(* dataspiderai: the company orchestrator (agents/data_agent.py), the      *)
(* screener sweep (agents/screener_agent.py), the patents fetch            *)
(* (agents/patent_agent.py), the text-extraction client                    *)
(* (utils/agents_utils.py) and the persistence writer                      *)
(* (storage/storage_handler.py).                                           *)
(*                                                                         *)
(* Spec      one owning call of a browser session: scrape_company,         *)
(*           _fetch_html or fetch_patents_html, step by step.              *)
(* SpecSweep scrape_screener_pages: pages, ticker lists, company runs.     *)
(* SpecLLM   extract_with_llm and the extractors on bounded replies.       *)
(* SpecTable _bs_statement_to_df on bounded statements tables.             *)
(* SpecPatents scrape_patents on bounded counter phrases.                  *)
(* SpecStore save_company_data, its files and the clock.                   *)
(* SpecCli   the dataset flags run_pipeline passes on.                     *)
(* SpecWidget fetch_ownership_htmls beside the page of the widget.         *)
(***************************************************************************)
EXTENDS Integers, Sequences, FiniteSets, TLC

VARIABLES
    owner,        \* the owning call being run
    enabled,      \* scrape_company: the sections whose do_* flag is true
    dates,        \* fetch_patents_html: start_date and end_date both given
    pc,           \* position in the owning call
    pending,      \* section just added to data, _save_partial not yet run
    pw,           \* the async_playwright() context: "none", "running", "stopped"
    browser,      \* the launched browser: "none", "open", "closed"
    outcome,      \* "running", "returned", "raised"
    data,         \* keys of the aggregate result map
    files,        \* sections for which a file was written during this call
    nwrites,      \* how many times each section's file was written in this call
    attempted,    \* steps of the call that have begun
    yoy,          \* result of _ensure_yoy_toggles: "na", "ok", "notfound"
    empties,      \* sections of data whose structure has no row and no entry
    fund_html,    \* fetch_ownership_htmls: a funds table was captured
    mgr_html,     \* fetch_ownership_htmls: a managers table was captured
    own,          \* fetch_ownership_htmls: the widget and how each sub-view went
    finalCall,    \* the save_company_data call after the session: "none", "called"
    finalWritten, \* the sections that call wrote
    slugs,        \* sweep: the exch, idx, sector, industry and country arguments
    filter_codes, \* sweep: the codes _translate_filters gave
    url,          \* sweep: the URL of the page being rendered
    start_page,   \* sweep: first page requested
    end_page,     \* sweep: last page requested
    pg,           \* sweep: current page number
    counts,       \* sweep: number of tickers extracted from each rendered page
    tickers,      \* sweep: number of tickers extracted from the current page
    sym,          \* sweep: index of the next ticker of the page to scrape
    rendered,     \* sweep: pages rendered, in order
    runs,         \* sweep: company-orchestrator runs started, <<page, index>>
    sweep,        \* sweep: "filters", "page", "fetch", "extract", "tickers",
                  \*        "company", "returned", "raised"
    sessions,     \* sweep: the browser sessions that are open
    disk,         \* sweep: the company runs whose sections are on disk
    failed,       \* sweep: the company run whose error ended the sweep, if any
    finished,     \* sweep: the company runs that have returned
    llm_fn,       \* client: the function last called
    llm_snippet,  \* client: its snippet argument
    llm_reply,    \* client: the model's reply (ModelError when the call raised)
    llm_invoked,  \* client: the model was invoked by that call
    llm_text,     \* client: the text extract_with_llm returned
    llm_value,    \* client: what the call yielded: "None", "text", "empty", "value", "raise"
    tbl_html,     \* statements parser: the html handed to _bs_statement_to_df
    tbl_df,       \* statements parser: what it returned
    pat_phrase,   \* patents: the phrase extract_patent_count returned
    pat_result,   \* patents: what scrape_patents returned
    st_clock,     \* storage: the wall clock, in seconds
    st_call,      \* storage: the last save_company_data call and its arguments
    st_written,   \* storage: the files the last call wrote
    cli_mode,     \* run_pipeline: "none", "symbols" or "screener"
    cli_args,     \* run_pipeline: the dataset flags given on the command line
    cli_enabled,  \* run_pipeline: the do_* flags passed to the orchestrator
    wdg_pc,       \* ownership widget: the position in fetch_ownership_htmls
    wdg_need,     \* ownership widget: <<need_managers, need_funds>>
    wdg_view,     \* ownership widget: the table on screen: "none", "funds", "managers"
    wdg_req,      \* ownership widget: the tab whose table the page is still loading
    wdg_funds,    \* ownership widget: funds_html: "None" or the table captured
    wdg_mgrs      \* ownership widget: managers_html: "None" or the table captured

sessionVars == <<owner, enabled, dates, pc, pending, pw, browser, outcome, data,
                 files, nwrites, attempted, yoy, empties, fund_html, mgr_html, own, finalCall,
                 finalWritten>>
sweepVars == <<slugs, filter_codes, url, start_page, end_page, pg, counts,
               tickers, sym, rendered, runs, sweep, sessions, disk, failed,
               finished>>
llmVars == <<llm_fn, llm_snippet, llm_reply, llm_invoked, llm_text, llm_value>>
tableVars == <<tbl_html, tbl_df>>
patentVars == <<pat_phrase, pat_result>>
storeVars == <<st_clock, st_call, st_written>>
cliVars == <<cli_mode, cli_args, cli_enabled>>
widgetVars == <<wdg_pc, wdg_need, wdg_view, wdg_req, wdg_funds, wdg_mgrs>>
pureVars == <<tableVars, patentVars, storeVars, cliVars, widgetVars>>
vars == <<sessionVars, sweepVars, llmVars, pureVars>>

(***************************************************************************)
(* Bounds of the model.                                                    *)
(***************************************************************************)
MaxEnabled == 2
MaxLen == 5
MaxItems == 2
MaxPage == 3
MaxFew == 2

(***************************************************************************)
(* Text: a string is a sequence of lexemes.                                *)
(*   "FJ"  the opening fence ```json      "F"  a bare fence ```            *)
(*   "{" "}"  braces     "s"  one whitespace character                     *)
(*   "x"  the text "k":1 (one member of a JSON object)                     *)
(***************************************************************************)
Lexemes == {"FJ", "F", "{", "}", "s", "x"}
Fences == {"FJ", "F"}
NoResult == "None"
\* the reply of a model call that raised (network, quota, credential)
ModelError == <<"error">>

\* str.strip(): drop leading and trailing whitespace
RECURSIVE lstrip(_)
lstrip(t) == IF t # <<>> /\ Head(t) = "s" THEN lstrip(Tail(t)) ELSE t

RECURSIVE rstrip(_)
rstrip(t) ==
    IF t # <<>> /\ t[Len(t)] = "s" THEN rstrip(SubSeq(t, 1, Len(t) - 1)) ELSE t

strip(t) == rstrip(lstrip(t))

\* str.find / str.rfind, 0-based, -1 when absent
RECURSIVE findFrom(_, _, _)
findFrom(t, c, i) ==
    IF i > Len(t) THEN -1
    ELSE IF t[i] = c THEN i - 1
    ELSE findFrom(t, c, i + 1)

find(t, c) == findFrom(t, c, 1)

RECURSIVE rfindFrom(_, _, _)
rfindFrom(t, c, i) ==
    IF i < 1 THEN -1
    ELSE IF t[i] = c THEN i - 1
    ELSE rfindFrom(t, c, i - 1)

rfind(t, c) == rfindFrom(t, c, Len(t))

\* the first closing ``` at or after position j (1-based), 0 when there is none;
\* the three backticks that open another ```json close the block as well
RECURSIVE closingFence(_, _)
closingFence(t, j) ==
    IF j > Len(t) THEN 0
    ELSE IF t[j] \in Fences THEN j
    ELSE closingFence(t, j + 1)

\* re.search(r"```json\s*([\s\S]*?)```", text): leftmost opening fence that has a
\* closing fence after it, shortest content; <<i, j>> or <<0, 0>> for no match
RECURSIVE fencedFrom(_, _)
fencedFrom(t, i) ==
    IF i > Len(t) THEN <<0, 0>>
    ELSE IF t[i] = "FJ" /\ closingFence(t, i + 1) # 0
         THEN <<i, closingFence(t, i + 1)>>
    ELSE fencedFrom(t, i + 1)

fenced(t) == fencedFrom(t, 1)

\* the reply post-processing of extract_with_llm, brace fallback tried first
recover_braces_first(text) ==
    LET start == find(text, "{")
        end == rfind(text, "}")
        m == fenced(text)
    IN IF 0 <= start /\ start < end
       THEN strip(SubSeq(text, start + 1, end + 1))
       ELSE IF m # <<0, 0>> THEN strip(SubSeq(text, m[1] + 1, m[2] - 1))
       ELSE strip(text)

\* the reply post-processing of extract_with_llm
recover(text) ==
    LET m == fenced(text)
        start == find(text, "{")
        end == rfind(text, "}")
    IN IF m # <<0, 0>> THEN strip(SubSeq(text, m[1] + 1, m[2] - 1))
       ELSE IF 0 <= start /\ start < end
            THEN strip(SubSeq(text, start + 1, end + 1))
       ELSE strip(text)

\* extract_with_llm(html_snippet, prompt): the model is invoked whatever the
\* snippet is; a failing model call raises
extract_with_llm(snippet, reply) ==
    IF reply = ModelError
    THEN [invoked |-> TRUE, raised |-> TRUE, text |-> <<>>]
    ELSE [invoked |-> TRUE, raised |-> FALSE, text |-> recover(reply)]

\* json.loads on the lexemes: whitespace between tokens is ignored; {} decodes to
\* an empty object, {"k":1} to a non-empty one, anything else fails to decode
RECURSIVE unspaced(_)
unspaced(t) ==
    IF t = <<>> THEN <<>>
    ELSE IF Head(t) = "s" THEN unspaced(Tail(t))
    ELSE <<Head(t)>> \o unspaced(Tail(t))

\* the JSON documents in token form: an object is {} or {"k":1}; an array is []
\* or [ object , object ... ]; "[", "]" and "," are the array's own tokens
JsonObjects == {<<"{", "}">>, <<"{", "x", "}">>}

RECURSIVE json_items(_)
json_items(u) ==
    \/ u \in JsonObjects
    \/ \E o \in JsonObjects :
        /\ Len(u) > Len(o) + 1
        /\ SubSeq(u, 1, Len(o)) = o
        /\ u[Len(o) + 1] = ","
        /\ json_items(SubSeq(u, Len(o) + 2, Len(u)))

json_array(u) ==
    /\ Len(u) >= 2 /\ u[1] = "[" /\ u[Len(u)] = "]"
    /\ Len(u) = 2 \/ json_items(SubSeq(u, 2, Len(u) - 1))

\* json.loads(t) as a value: the document without its insignificant
\* whitespace, or JSONDecodeError for a text that is not one JSON document
json_decode(t) ==
    IF unspaced(t) \in JsonObjects \/ json_array(unspaced(t))
    THEN unspaced(t)
    ELSE <<"JSONDecodeError">>

json_loads(t) ==
    IF json_decode(t) = <<"JSONDecodeError">> THEN "JSONDecodeError"
    ELSE IF json_decode(t) \in {<<"{", "}">>, <<"[", "]">>} THEN "empty"
    ELSE "value"

\* _gpt_json without its blank-snippet guard
_gpt_json_unguarded(snippet, reply) ==
    LET r == extract_with_llm(snippet, reply)
    IN IF r.raised \/ json_loads(r.text) = "JSONDecodeError"
       THEN [invoked |-> r.invoked, value |-> NoResult]
       ELSE [invoked |-> r.invoked, value |-> json_loads(r.text)]

\* _gpt_json(snippet, prompt): None for a blank snippet, a raising model call or
\* an undecodable reply, otherwise the decoded value
_gpt_json(snippet, reply) ==
    IF strip(snippet) = <<>>
    THEN [invoked |-> FALSE, value |-> NoResult]
    ELSE LET r == extract_with_llm(snippet, reply)
         IN IF r.raised \/ json_loads(r.text) = "JSONDecodeError"
            THEN [invoked |-> r.invoked, value |-> NoResult]
            ELSE [invoked |-> r.invoked, value |-> json_loads(r.text)]

\* Python truthiness of a decoded value: None, {} and [] are false
truthy(v) == v = "value"

(***************************************************************************)
(* Sections and the persistence writer.                                    *)
(***************************************************************************)
Sections == {"metrics", "insiders", "info", "ratings", "news",
             "holdings_breakdown", "top10_holdings",
             "income", "balance", "cash", "funds", "managers"}
Statements == {"income", "balance", "cash"}
Ownership == {"funds", "managers"}
GptSections == {"metrics", "insiders", "ratings", "news",
                "holdings_breakdown", "top10_holdings"}

\* save_company_data(data, symbol, save_*...): one file per section whose switch
\* is on and which is a key of data; returns the sections written
save_company_data(d, switches) == {s \in Sections : s \in switches /\ s \in d}

\* the switches of a _save_partial that turns every switch on
partial_flags_all(section) ==
    {"metrics", "insiders", "managers", "funds", "ratings", "news",
     "income", "balance", "cash", "holdings_breakdown", "top10_holdings"}

\* the switches _save_partial builds, with the section's own switch left off
partial_flags_none(section) == {}

\* the switches _save_partial builds: the eleven names of its tuple, each on
\* exactly when it is the requested section
partial_flags(section) ==
    {sec \in {"metrics", "insiders", "managers", "funds", "ratings", "news",
              "income", "balance", "cash", "holdings_breakdown",
              "top10_holdings"} : sec = section}

\* _save_partial(symbol, data, section)
_save_partial(d, section) == save_company_data(d, partial_flags(section))

\* the switches of the save_company_data call that ends scrape_company: every
\* keyword passed is False and save_info is not passed (its default is False)
final_flags == {}

(***************************************************************************)
(* The browser session of an owning call.                                  *)
(***************************************************************************)
Owners == {"scrape_company", "_fetch_html", "fetch_patents_html"}

\* what a Playwright call can do: succeed, time out, or fail otherwise
UiOutcomes == {"ok", "PWTimeout", "PWError"}

\* leaving the async_playwright() block without stopping the driver
pw_exit_leaks(b) == b

\* leaving the `async with async_playwright()` block, normally or by an
\* exception: the driver is stopped and a browser it launched goes down with it
pw_exit(b) == IF b = "open" THEN "closed" ELSE b

\* an exception leaves the block of the owning call and the call itself
Raise ==
    /\ pw' = "stopped"
    /\ browser' = pw_exit(browser)
    /\ outcome' = "raised"
    /\ pc' = "done"

(***************************************************************************)
(* scrape_company                                                          *)
(***************************************************************************)
\* the sections cli.run_pipeline enables when no dataset flag is given
FullSweep == Sections \ {"info", "news"}

\* the flag combinations explored
FlagSets ==
    {E \in SUBSET Sections :
        Cardinality(E) <= MaxEnabled \/ E = Sections \/ E = FullSweep}

\* the model replies drawn for a section's extraction
Replies == {ModelError, <<"x">>, <<"s">>, <<"{", "}">>, <<"{", "x", "}">>,
            <<"x", "FJ", "{", "x", "}", "F">>}

\* str(soup.find(...) or ""): the subtree's HTML, or "" when it is absent
subtree(present) == IF present THEN <<"x">> ELSE <<>>

\* a flag test that lets every section through
do_flag_ignored(s) == TRUE

\* `if do_<section>:` and the two group tests, any([do_income, do_balance,
\* do_cash]) and `do_managers or do_funds`
do_flag(s) ==
    IF s = "yoy" THEN enabled \cap Statements # {}
    ELSE IF s = "ownership" THEN enabled \cap Ownership # {}
    ELSE s \in enabled

\* the steps with the news block placed before the ratings block
after_news_first(s) ==
    CASE s = "metrics" -> "insiders"
      [] s = "insiders" -> "info"
      [] s = "info" -> "news"
      [] s = "news" -> "ratings"
      [] s = "ratings" -> "holdings_breakdown"
      [] s = "holdings_breakdown" -> "top10_holdings"
      [] s = "top10_holdings" -> "yoy"
      [] s = "income" -> "balance"
      [] s = "balance" -> "cash"
      [] s = "cash" -> "ownership"
      [] s = "funds" -> "managers"
      [] s = "managers" -> "close"

\* the step after step s when s ran (or, for a section, was disabled)
after(s) ==
    CASE s = "metrics" -> "insiders"
      [] s = "insiders" -> "info"
      [] s = "info" -> "ratings"
      [] s = "ratings" -> "news"
      [] s = "news" -> "holdings_breakdown"
      [] s = "holdings_breakdown" -> "top10_holdings"
      [] s = "top10_holdings" -> "yoy"
      [] s = "income" -> "balance"
      [] s = "balance" -> "cash"
      [] s = "cash" -> "ownership"
      [] s = "funds" -> "managers"
      [] s = "managers" -> "close"

\* position of a section in the order scrape_company attempts them
pos(s) ==
    CASE s = "metrics" -> 1 [] s = "insiders" -> 2 [] s = "info" -> 3
      [] s = "ratings" -> 4 [] s = "news" -> 5
      [] s = "holdings_breakdown" -> 6 [] s = "top10_holdings" -> 7
      [] s = "income" -> 8 [] s = "balance" -> 9 [] s = "cash" -> 10
      [] s = "funds" -> 11 [] s = "managers" -> 12

\* _center(page, selector): a timeout is swallowed, any other error propagates
_center(o) == IF o = "PWError" THEN "raise" ELSE "ok"

\* async with async_playwright(); launch(); new_page()
scrape_company_launch ==
    /\ owner = "scrape_company" /\ pc = "launch"
    /\ \E ok \in BOOLEAN :
        IF ok
        THEN /\ pw' = "running" /\ browser' = "open" /\ pc' = "goto"
             /\ UNCHANGED outcome
        ELSE Raise
    /\ attempted' = attempted \cup {"launch"}
    /\ UNCHANGED <<owner, enabled, dates, pending, data, files, nwrites, yoy, empties, fund_html,
                   mgr_html, own, finalCall, finalWritten, sweepVars, llmVars,
                   pureVars>>

\* page.goto(URL_TEMPLATE.format(ticker=symbol), timeout=60_000)
scrape_company_goto ==
    /\ owner = "scrape_company" /\ pc = "goto"
    /\ \E o \in UiOutcomes :
        IF o = "ok"
        THEN pc' = "base" /\ UNCHANGED <<pw, browser, outcome>>
        ELSE Raise
    /\ attempted' = attempted \cup {"goto"}
    /\ UNCHANGED <<owner, enabled, dates, pending, data, files, nwrites, yoy, empties, fund_html,
                   mgr_html, own, finalCall, finalWritten, sweepVars, llmVars,
                   pureVars>>

\* _dismiss_cookie_banner(page); base_html = page.content()
scrape_company_base ==
    /\ owner = "scrape_company" /\ pc = "base"
    /\ pc' = "metrics"
    /\ attempted' = attempted \cup {"base"}
    /\ UNCHANGED <<owner, enabled, dates, pending, pw, browser, outcome, data,
                   files, nwrites, yoy, empties, fund_html, mgr_html, own, finalCall, finalWritten,
                   sweepVars, llmVars, pureVars>>

\* a section (or group) whose flag is off
scrape_company_skip ==
    /\ owner = "scrape_company" /\ pending = "none"
    /\ pc \in Sections \cup {"yoy", "ownership"}
    /\ ~do_flag(pc)
    /\ pc' = CASE pc = "yoy" -> "ownership"
               [] pc = "ownership" -> "close"
               [] OTHER -> after(pc)
    /\ UNCHANGED <<owner, enabled, dates, pending, pw, browser, outcome, data,
                   files, nwrites, attempted, yoy, empties, fund_html, mgr_html, own, finalCall,
                   finalWritten, sweepVars, llmVars, pureVars>>

\* metrics, insiders, ratings, news, holdings breakdown, top-10 holdings:
\* _center, _announce, the extractor (through _gpt_json), data[s] = rows
scrape_company_gpt(s) ==
    /\ owner = "scrape_company" /\ pc = s /\ s \in GptSections
    /\ pending = "none" /\ do_flag(s)
    /\ \E c \in UiOutcomes, present \in BOOLEAN, reply \in Replies :
        IF _center(c) = "raise"
        THEN Raise /\ UNCHANGED <<attempted, data, pending, empties>>
        ELSE LET rows == _gpt_json(subtree(present), reply).value
             IN /\ attempted' = attempted \cup {s}
                /\ empties' = IF truthy(rows) /\ rows = "empty"
                              THEN empties \cup {s} ELSE empties
                /\ IF truthy(rows)
                   THEN data' = data \cup {s} /\ pending' = s /\ pc' = s
                   ELSE UNCHANGED <<data, pending>> /\ pc' = after(s)
                /\ UNCHANGED <<pw, browser, outcome>>
    /\ UNCHANGED <<owner, enabled, dates, files, nwrites, yoy, fund_html,
                   mgr_html, own, finalCall, finalWritten, sweepVars, llmVars,
                   pureVars>>

\* extract_company_info(html): None for an absent bio, otherwise the reply of
\* extract_with_llm, stripped, or None when that is empty; nothing is caught
extract_company_info(present, reply) ==
    IF strip(subtree(present)) = <<>> THEN NoResult
    ELSE LET r == extract_with_llm(subtree(present), reply)
         IN IF r.raised THEN "raise"
            ELSE IF strip(r.text) = <<>> THEN NoResult
            ELSE "value"

\* company profile: data["info"] = info, with no _save_partial
scrape_company_info ==
    /\ owner = "scrape_company" /\ pc = "info" /\ do_flag("info")
    /\ \E c \in UiOutcomes, present \in BOOLEAN, reply \in Replies :
        IF _center(c) = "raise"
        THEN Raise /\ UNCHANGED <<attempted, data>>
        ELSE LET info == extract_company_info(present, reply)
             IN /\ attempted' = attempted \cup {"info"}
                /\ IF info = "raise"
                   THEN Raise /\ UNCHANGED data
                   ELSE /\ data' = IF info = "value" THEN data \cup {"info"}
                                   ELSE data
                        /\ pc' = after("info")
                        /\ UNCHANGED <<pw, browser, outcome>>
    /\ UNCHANGED <<owner, enabled, dates, pending, files, nwrites, yoy, empties, fund_html,
                   mgr_html, own, finalCall, finalWritten, sweepVars, llmVars,
                   pureVars>>

\* the write counts after a save_company_data call that wrote `written`
counted(n, written) ==
    [s \in Sections |-> IF s \in written THEN n[s] + 1 ELSE n[s]]

\* _save_partial(symbol, data, section), right after data[section] = ...
scrape_company_save ==
    /\ owner = "scrape_company" /\ pending # "none"
    /\ files' = files \cup _save_partial(data, pending)
    /\ nwrites' = counted(nwrites, _save_partial(data, pending))
    /\ pending' = "none"
    /\ pc' = after(pc)
    /\ UNCHANGED <<owner, enabled, dates, pw, browser, outcome, data, attempted,
                   yoy, empties, fund_html, mgr_html, own, finalCall, finalWritten,
                   sweepVars,
                   llmVars, pureVars>>

\* _ensure_yoy_toggles(page): for each of the two labels, wait for the button
\* (a timeout returns False), then click it unless it is already active; the
\* click is outside the try, so what _safe_click lets through propagates
_ensure_yoy_toggles(w1, c1, w2, c2) ==
    IF w1 = "PWTimeout" THEN "False"
    ELSE IF c1 = "PWError" THEN "raise"
    ELSE IF w2 = "PWTimeout" THEN "False"
    ELSE IF c2 = "PWError" THEN "raise"
    ELSE "True"

\* a toggle gate that guards the income statement only
yoy_gate_income_only(toggled) == IF toggled = "True" THEN "income" ELSE "balance"

\* `if await _ensure_yoy_toggles(page): <income, balance, cash> else: _skip(...)`
yoy_gate(toggled) == IF toggled = "True" THEN "income" ELSE "ownership"

\* the shared YoY-toggle step of the financial statements
scrape_company_yoy ==
    /\ owner = "scrape_company" /\ pc = "yoy" /\ do_flag("yoy")
    /\ \E w1, w2 \in {"found", "PWTimeout"}, c1, c2 \in {"active", "clicked", "PWError"} :
        LET toggled == _ensure_yoy_toggles(w1, c1, w2, c2)
        IN IF toggled = "raise"
           THEN Raise /\ UNCHANGED yoy
           ELSE /\ yoy' = IF toggled = "True" THEN "ok" ELSE "notfound"
                /\ pc' = yoy_gate(toggled)
                /\ UNCHANGED <<pw, browser, outcome>>
    /\ attempted' = attempted \cup {"yoy"}
    /\ UNCHANGED <<owner, enabled, dates, pending, data, files, nwrites,
                   empties, fund_html, mgr_html, own, finalCall, finalWritten,
                   sweepVars, llmVars, pureVars>>

\* _scrape_fin_table(page, tab_text): the page HTML, or None when the tab click
\* or the wait fails (PWTimeout and PWError are both caught)
_scrape_fin_table(o) == IF o = "ok" THEN "html" ELSE "None"

\* what the statements widget can hold
TableKinds == {"absent", "short", "header_only", "regular", "ragged"}

\* _bs_statement_to_df(html): None without html, without the table or without a
\* row of more than two kept cells; otherwise a DataFrame of the rows under the
\* first one, which pandas refuses when they are wider or narrower than it
_bs_statement_to_df(html, table) ==
    IF html = "None" THEN "None"
    ELSE IF table \in {"absent", "short"} THEN "None"
    ELSE IF table = "ragged" THEN "raise"
    ELSE "df"

\* income, balance, cash: _announce, _scrape_fin_table, _bs_statement_to_df
scrape_company_statement(s) ==
    /\ owner = "scrape_company" /\ pc = s /\ s \in Statements
    /\ pending = "none" /\ do_flag(s)
    /\ \E o \in UiOutcomes, table \in TableKinds :
        LET df == _bs_statement_to_df(_scrape_fin_table(o), table)
        IN IF df = "raise"
           THEN Raise /\ UNCHANGED <<data, pending, empties>>
           ELSE /\ empties' = IF df = "df" /\ table = "header_only"
                               THEN empties \cup {s} ELSE empties
                /\ IF df = "df"
                   THEN data' = data \cup {s} /\ pending' = s /\ pc' = s
                   ELSE UNCHANGED <<data, pending>> /\ pc' = after(s)
                /\ UNCHANGED <<pw, browser, outcome>>
    /\ attempted' = attempted \cup {s}
    /\ UNCHANGED <<owner, enabled, dates, files, nwrites, yoy, fund_html,
                   mgr_html, own, finalCall, finalWritten, sweepVars, llmVars,
                   pureVars>>

\* a sub-view that returns without trying the managers when the funds fail
fetch_ownership_htmls_funds_abort(need_managers, need_funds, visible, fo, mo) ==
    IF ~(need_managers \/ need_funds) THEN <<FALSE, FALSE>>
    ELSE IF ~visible THEN <<FALSE, FALSE>>
    ELSE IF need_funds /\ fo # "ok" THEN <<FALSE, FALSE>>
    ELSE <<need_managers /\ mo = "ok", need_funds /\ fo = "ok">>

\* fetch_ownership_htmls(page, need_managers, need_funds): <<managers, funds>>,
\* each TRUE when its table was captured; a failed tab click or wait leaves the
\* sub-view None and the other one is still tried
fetch_ownership_htmls(need_managers, need_funds, visible, fo, mo) ==
    IF ~(need_managers \/ need_funds) THEN <<FALSE, FALSE>>
    ELSE IF ~visible THEN <<FALSE, FALSE>>
    ELSE <<need_managers /\ mo = "ok", need_funds /\ fo = "ok">>

\* what fetch_ownership_htmls met: whether the widget was visible, and for each
\* sub-view it tried how its tab click and table wait went
sub_views(need_managers, need_funds, visible, fo, mo) ==
    [visible |-> visible,
     fo |-> IF visible /\ need_funds THEN fo ELSE "na",
     mo |-> IF visible /\ need_managers THEN mo ELSE "na"]

\* the ownership widget: _announce, fetch_ownership_htmls
scrape_company_ownership ==
    /\ owner = "scrape_company" /\ pc = "ownership" /\ do_flag("ownership")
    /\ \E visible \in BOOLEAN, c, fo, mo \in UiOutcomes :
        IF visible /\ _center(c) = "raise"
        THEN Raise /\ UNCHANGED <<fund_html, mgr_html, own>>
        ELSE LET h == fetch_ownership_htmls("managers" \in enabled,
                                            "funds" \in enabled, visible, fo, mo)
             IN /\ mgr_html' = h[1]
                /\ fund_html' = h[2]
                /\ own' = sub_views("managers" \in enabled,
                                    "funds" \in enabled, visible, fo, mo)
                /\ pc' = "funds"
                /\ UNCHANGED <<pw, browser, outcome>>
    /\ attempted' = attempted \cup {"ownership"}
    /\ UNCHANGED <<owner, enabled, dates, pending, data, files, nwrites, yoy, empties, finalCall,
                   finalWritten, sweepVars, llmVars, pureVars>>

\* extract_ownership_table(snippet, label): None for a blank snippet, otherwise
\* _gpt_json
extract_ownership_table(snippet, reply) ==
    IF strip(snippet) = <<>> THEN [invoked |-> FALSE, value |-> NoResult]
    ELSE _gpt_json(snippet, reply)

\* funds, managers: extract_ownership_table(html or "", label)
scrape_company_holders(s) ==
    /\ owner = "scrape_company" /\ pc = s /\ s \in Ownership
    /\ pending = "none" /\ do_flag(s)
    /\ \E reply \in Replies :
        LET html == IF s = "funds" THEN fund_html ELSE mgr_html
            rows == extract_ownership_table(subtree(html), reply).value
        IN /\ empties' = IF truthy(rows) /\ rows = "empty"
                         THEN empties \cup {s} ELSE empties
           /\ IF truthy(rows)
              THEN data' = data \cup {s} /\ pending' = s /\ pc' = s
              ELSE UNCHANGED <<data, pending>> /\ pc' = after(s)
    /\ attempted' = attempted \cup {s}
    /\ UNCHANGED <<owner, enabled, dates, pw, browser, outcome, files, nwrites,
                   yoy, fund_html, mgr_html, own, finalCall, finalWritten,
                   sweepVars, llmVars, pureVars>>

\* browser.close(), then the end of the async_playwright() block
scrape_company_close ==
    /\ owner = "scrape_company" /\ pc = "close"
    /\ browser' = pw_exit("closed")
    /\ pw' = "stopped"
    /\ pc' = "final"
    /\ attempted' = attempted \cup {"close"}
    /\ UNCHANGED <<owner, enabled, dates, pending, outcome, data, files, nwrites, yoy, empties,
                   fund_html, mgr_html, own, finalCall, finalWritten, sweepVars,
                   llmVars, pureVars>>

\* `if data.get("info"): save_company_data(...)`, then `return data`
scrape_company_return ==
    /\ owner = "scrape_company" /\ pc = "final"
    /\ IF "info" \in data
       THEN /\ finalCall' = "called"
            /\ finalWritten' = save_company_data(data, final_flags)
            /\ files' = files \cup save_company_data(data, final_flags)
            /\ nwrites' = counted(nwrites, save_company_data(data, final_flags))
       ELSE UNCHANGED <<finalCall, finalWritten, files, nwrites>>
    /\ outcome' = "returned"
    /\ pc' = "done"
    /\ UNCHANGED <<owner, enabled, dates, pending, pw, browser, data, attempted,
                   yoy, empties, fund_html, mgr_html, own, sweepVars, llmVars, pureVars>>

(***************************************************************************)
(* _fetch_html (screener) and fetch_patents_html                           *)
(***************************************************************************)
\* _fetch_html: async with async_playwright(); launch(); new_page()
fetch_html_launch ==
    /\ owner = "_fetch_html" /\ pc = "launch"
    /\ \E ok \in BOOLEAN :
        IF ok
        THEN /\ pw' = "running" /\ browser' = "open" /\ pc' = "goto"
             /\ UNCHANGED outcome
        ELSE Raise
    /\ attempted' = attempted \cup {"launch"}
    /\ UNCHANGED <<owner, enabled, dates, pending, data, files, nwrites, yoy, empties, fund_html,
                   mgr_html, own, finalCall, finalWritten, sweepVars, llmVars,
                   pureVars>>

\* _fetch_html: page.goto(url, timeout=60_000)
fetch_html_goto ==
    /\ owner = "_fetch_html" /\ pc = "goto"
    /\ \E o \in UiOutcomes :
        IF o = "ok"
        THEN pc' = "content" /\ UNCHANGED <<pw, browser, outcome>>
        ELSE Raise
    /\ attempted' = attempted \cup {"goto"}
    /\ UNCHANGED <<owner, enabled, dates, pending, data, files, nwrites, yoy, empties, fund_html,
                   mgr_html, own, finalCall, finalWritten, sweepVars, llmVars,
                   pureVars>>

\* _fetch_html: sleep, page.content(), browser.close(), end of block, return
fetch_html_return ==
    /\ owner = "_fetch_html" /\ pc = "content"
    /\ browser' = pw_exit("closed")
    /\ pw' = "stopped"
    /\ outcome' = "returned"
    /\ pc' = "done"
    /\ attempted' = attempted \cup {"content"}
    /\ UNCHANGED <<owner, enabled, dates, pending, data, files, nwrites, yoy, empties, fund_html,
                   mgr_html, own, finalCall, finalWritten, sweepVars, llmVars,
                   pureVars>>

\* fetch_patents_html: async with async_playwright(); launch(); new_page()
fetch_patents_launch ==
    /\ owner = "fetch_patents_html" /\ pc = "launch"
    /\ \E ok \in BOOLEAN :
        IF ok
        THEN /\ pw' = "running" /\ browser' = "open" /\ pc' = "goto"
             /\ UNCHANGED outcome
        ELSE Raise
    /\ attempted' = attempted \cup {"launch"}
    /\ UNCHANGED <<owner, enabled, dates, pending, data, files, nwrites, yoy, empties, fund_html,
                   mgr_html, own, finalCall, finalWritten, sweepVars, llmVars,
                   pureVars>>

\* fetch_patents_html: page.goto(url, timeout=60_000)
fetch_patents_goto ==
    /\ owner = "fetch_patents_html" /\ pc = "goto"
    /\ \E o \in UiOutcomes :
        IF o = "ok"
        THEN /\ pc' = IF dates THEN "filter" ELSE "content"
             /\ UNCHANGED <<pw, browser, outcome>>
        ELSE Raise
    /\ attempted' = attempted \cup {"goto"}
    /\ UNCHANGED <<owner, enabled, dates, pending, data, files, nwrites, yoy, empties, fund_html,
                   mgr_html, own, finalCall, finalWritten, sweepVars, llmVars,
                   pureVars>>

\* fetch_patents_html with both dates: three clicks, two fills and a key press,
\* none of them guarded, then the wait for div#count whose timeout is tolerated
fetch_patents_filter ==
    /\ owner = "fetch_patents_html" /\ pc = "filter"
    /\ \E ui \in UiOutcomes, w \in {"found", "PWTimeout"} :
        IF ui = "ok"
        THEN pc' = "content" /\ UNCHANGED <<pw, browser, outcome>>
        ELSE Raise
    /\ attempted' = attempted \cup {"filter"}
    /\ UNCHANGED <<owner, enabled, dates, pending, data, files, nwrites, yoy, empties, fund_html,
                   mgr_html, own, finalCall, finalWritten, sweepVars, llmVars,
                   pureVars>>

\* fetch_patents_html: page.content(), browser.close(), end of block, return
fetch_patents_return ==
    /\ owner = "fetch_patents_html" /\ pc = "content"
    /\ browser' = pw_exit("closed")
    /\ pw' = "stopped"
    /\ outcome' = "returned"
    /\ pc' = "done"
    /\ attempted' = attempted \cup {"content"}
    /\ UNCHANGED <<owner, enabled, dates, pending, data, files, nwrites, yoy, empties, fund_html,
                   mgr_html, own, finalCall, finalWritten, sweepVars, llmVars,
                   pureVars>>

(***************************************************************************)
(* Spec: one owning call.                                                  *)
(***************************************************************************)
SessionInit ==
    /\ owner \in Owners
    /\ enabled \in (IF owner = "scrape_company" THEN FlagSets ELSE {{}})
    /\ dates \in (IF owner = "fetch_patents_html" THEN BOOLEAN ELSE {FALSE})
    /\ pc = "launch" /\ pending = "none"
    /\ pw = "none" /\ browser = "none" /\ outcome = "running"
    /\ data = {} /\ files = {} /\ attempted = {}
    /\ nwrites = [s \in Sections |-> 0]
    /\ own = [visible |-> FALSE, fo |-> "na", mo |-> "na"]
    /\ yoy = "na" /\ fund_html = FALSE /\ mgr_html = FALSE /\ empties = {}
    /\ finalCall = "none" /\ finalWritten = {}

SessionIdle ==
    /\ owner = "none" /\ enabled = {} /\ dates = FALSE
    /\ pc = "done" /\ pending = "none"
    /\ pw = "none" /\ browser = "none" /\ outcome = "running"
    /\ data = {} /\ files = {} /\ attempted = {}
    /\ nwrites = [s \in Sections |-> 0]
    /\ own = [visible |-> FALSE, fo |-> "na", mo |-> "na"]
    /\ yoy = "na" /\ fund_html = FALSE /\ mgr_html = FALSE /\ empties = {}
    /\ finalCall = "none" /\ finalWritten = {}

SweepIdle ==
    /\ slugs = [a \in {"exch", "idx", "sector", "industry", "country"} |-> "none"]
    /\ filter_codes = <<>> /\ url = <<>>
    /\ start_page = 0 /\ end_page = 0 /\ pg = 0 /\ tickers = 0 /\ sym = 0
    /\ counts = <<>> /\ rendered = <<>> /\ runs = <<>> /\ sweep = "idle"
    /\ sessions = {} /\ disk = {} /\ failed = <<>> /\ finished = {}

LlmIdle ==
    /\ llm_fn = "none" /\ llm_snippet = <<>> /\ llm_reply = <<>>
    /\ llm_invoked = FALSE /\ llm_text = <<>> /\ llm_value = "None"

TableIdle ==
    /\ tbl_html = [kind |-> "idle", trs |-> <<>>]
    /\ tbl_df = [kind |-> "idle", columns |-> <<>>, rows |-> <<>>]

PatentIdle ==
    /\ pat_phrase = <<>>
    /\ pat_result = [state |-> "idle", count_phrase |-> <<>>, count |-> 0]

StoreIdle ==
    /\ st_clock = 0 /\ st_written = {}
    /\ st_call = [symbol |-> "none", data |-> {}, switches |-> {}, ts |-> 0]

CliIdle == cli_mode = "none" /\ cli_args = {} /\ cli_enabled = {}

WidgetIdle ==
    /\ wdg_pc = "idle" /\ wdg_need = <<FALSE, FALSE>>
    /\ wdg_view = "none" /\ wdg_req = "none"
    /\ wdg_funds = "None" /\ wdg_mgrs = "None"

PureIdle == TableIdle /\ PatentIdle /\ StoreIdle /\ CliIdle /\ WidgetIdle

Init == SessionInit /\ SweepIdle /\ LlmIdle /\ PureIdle

Next ==
    \/ scrape_company_launch
    \/ scrape_company_goto
    \/ scrape_company_base
    \/ scrape_company_skip
    \/ \E s \in GptSections : scrape_company_gpt(s)
    \/ scrape_company_info
    \/ scrape_company_save
    \/ scrape_company_yoy
    \/ \E s \in Statements : scrape_company_statement(s)
    \/ scrape_company_ownership
    \/ \E s \in Ownership : scrape_company_holders(s)
    \/ scrape_company_close
    \/ scrape_company_return
    \/ fetch_html_launch
    \/ fetch_html_goto
    \/ fetch_html_return
    \/ fetch_patents_launch
    \/ fetch_patents_goto
    \/ fetch_patents_filter
    \/ fetch_patents_return

Spec == Init /\ [][Next]_vars

(***************************************************************************)
(* Properties of an owning call (Spec).                                    *)
(***************************************************************************)

\* C1: a call that has returned or raised has no open browser session and no
\* running driver left behind, whichever step ended it.
C1_SessionClosedOnEveryExit ==
    outcome \in {"returned", "raised"} => browser # "open" /\ pw # "running"

\* a scrape_company call ended by an error raised at or after the profile
\* extraction, with the browser it had opened closed
C1_Witness ==
    /\ owner = "scrape_company" /\ outcome = "raised"
    /\ "info" \in attempted /\ browser = "closed"

\* C2: once the base page is loaded, a scrape_company call ends by returning
\* and has attempted every enabled section (the financial statements excepted
\* when the YoY toggles were not found).
C2_SectionsNeverBlock ==
    (owner = "scrape_company" /\ pc = "done" /\ "base" \in attempted) =>
        /\ outcome = "returned"
        /\ \A s \in enabled :
            s \in attempted \/ (s \in Statements /\ yoy = "notfound")

\* C3 as stated: no section stays in the map without a file once the extraction
\* of a later section has begun.
C3_EverySectionPersistedAtOnce ==
    \A s \in data \ files :
        ~\E t \in attempted \cap Sections : pos(t) > pos(s)

\* C3 amended: every section other than the profile info that is in the map
\* without a file is the one awaiting its _save_partial, and no later section
\* has begun.
C3_PersistedAtOnceExceptInfo ==
    \A s \in (data \ files) \ {"info"} :
        /\ s = pending
        /\ ~\E t \in attempted \cap Sections : pos(t) > pos(s)

\* the profile info is in the map without a file while ratings, extracted
\* after it, already has its file
C3_Witness ==
    /\ "info" \in data /\ "info" \notin files
    /\ "ratings" \in files /\ pending = "news"

\* C4: the keys of the result map, and the sections written to storage, are
\* among the enabled sections.
C4_KeysWithinEnabled ==
    owner = "scrape_company" => data \subseteq enabled /\ files \subseteq enabled

\* a returned run with two sections enabled out of twelve, both extracted
C4_Witness ==
    /\ outcome = "returned" /\ Cardinality(enabled) = 2
    /\ data = enabled /\ "info" \notin enabled /\ files = enabled

\* C5: a returned run that captured a profile description has made the final
\* persistence call, and that call wrote the info section and nothing else.
C5_FinalSaveWritesInfo ==
    (owner = "scrape_company" /\ outcome = "returned" /\ "info" \in data) =>
        finalCall = "called" /\ finalWritten = {"info"}

\* C6: after the YoY toggles were not found, no financial statement is
\* attempted, in the map or on disk, and the run goes on with the ownership
\* step.
C6_YoyFailureSkipsStatements ==
    yoy = "notfound" =>
        /\ (attempted \cup data \cup files) \cap Statements = {}
        /\ pc \in {"ownership", "funds", "managers", "close", "final", "done"}
        /\ (enabled \cap Ownership # {} /\ pc # "ownership")
               => "ownership" \in attempted

\* the toggles were not found with all three statements enabled, and the run
\* returned with the funds table extracted and saved
C6_Witness ==
    /\ yoy = "notfound" /\ Statements \subseteq enabled
    /\ outcome = "returned" /\ "funds" \in files

(***************************************************************************)
(* scrape_screener_pages                                                   *)
(***************************************************************************)
ROW_STEP == 20

\* how many tickers a listing page can yield: none, a few, one short of a full
\* page, a full page
TickerCounts == 0..MaxFew \cup {ROW_STEP - 1, ROW_STEP}

SlugKinds == {"none", "valid", "invalid"}

\* _translate_filters(exch, idx, sector, industry, country): the exchange, index
\* and sector slugs index their catalogs directly (KeyError when unknown); an
\* unknown industry or country yields no code and is dropped; a slug that is
\* not given yields no code either
code(slug, name) == IF slug = "valid" THEN <<name>> ELSE <<>>

\* the codes of the slugs given, in the order exch, idx, sector, industry, country
_translate_filters(exch, idx, sector, industry, country) ==
    IF "invalid" \in {exch, idx, sector}
    THEN [raised |-> "KeyError", codes |-> <<>>]
    ELSE [raised |-> "no",
          codes |-> code(exch, "exch_nasd") \o code(idx, "idx_sp500")
                        \o code(sector, "sec_energy")
                        \o code(industry, "ind_biotechnology")
                        \o code(country, "geo_usa")]

\* ",".join(filters); urllib.parse.quote(..., safe=",_") leaves codes as they are
RECURSIVE join(_)
join(filters) ==
    IF Len(filters) <= 1 THEN filters
    ELSE <<Head(filters), ",">> \o join(Tail(filters))

\* _build_base_url(filters): the page-1 URL, as the list of its pieces
_build_base_url(filters) ==
    IF filters = <<>> THEN <<"https://finviz.com/screener.ashx?v=111">>
    ELSE <<"https://finviz.com/screener.ashx?v=111", "&ft=4&f=">> \o join(filters)

\* _page_url with the offset of the page itself instead of the first row after
\* the previous pages
page_url_offset_of_page(page, filters) ==
    IF page = 1 THEN _build_base_url(filters)
    ELSE _build_base_url(filters) \o <<"&r=", ToString(page * ROW_STEP + 1)>>

\* _page_url(page, filters): the base URL for page 1, otherwise the base URL
\* followed by &r=<offset> with offset = (page - 1) * ROW_STEP + 1
_page_url(page, filters) ==
    IF page = 1 THEN _build_base_url(filters)
    ELSE _build_base_url(filters)
             \o <<"&r=", ToString((page - 1) * ROW_STEP + 1)>>

\* filter_codes = _translate_filters(...), before the page loop
sweep_filters ==
    /\ sweep = "filters"
    /\ LET t == _translate_filters(slugs.exch, slugs.idx, slugs.sector,
                                   slugs.industry, slugs.country)
       IN IF t.raised = "KeyError"
          THEN sweep' = "raised" /\ UNCHANGED <<pg, filter_codes>>
          ELSE sweep' = "page" /\ pg' = start_page /\ filter_codes' = t.codes
    /\ UNCHANGED <<slugs, url, start_page, end_page, counts, tickers, sym,
                   rendered, runs, sessions, disk, failed, finished,
                   sessionVars, llmVars, pureVars>>

\* an exit of the session's block that leaves the browser running
session_exit_leaks(open, id) == open

\* the end of a call's `async with async_playwright()` block, by return or by
\* error: the browser the call launched is gone
session_exit(open, id) == open \ {id}

\* `for pg in range(start_page, end_page + 1)`: url = _page_url(pg, ...), and
\* _fetch_html launches its browser; or the end of the range
sweep_page ==
    /\ sweep = "page"
    /\ IF pg > end_page
       THEN sweep' = "returned" /\ UNCHANGED <<rendered, url, sessions>>
       ELSE /\ url' = _page_url(pg, filter_codes)
            /\ rendered' = Append(rendered, pg)
            /\ \E launched \in BOOLEAN :
                IF launched
                THEN /\ sessions' = sessions \cup {<<"listing", pg, 0>>}
                     /\ sweep' = "fetch"
                ELSE sweep' = "raised" /\ UNCHANGED sessions
    /\ UNCHANGED <<slugs, filter_codes, start_page, end_page, pg, counts,
                   tickers, sym, runs, disk, failed, finished, sessionVars,
                   llmVars, pureVars>>

\* the rest of _fetch_html: goto, content, browser.close(), the end of its
\* async with block; a goto that fails leaves the block by its error
sweep_fetch ==
    /\ sweep = "fetch"
    /\ sessions' = session_exit(sessions, <<"listing", pg, 0>>)
    /\ \E fetched \in BOOLEAN :
        sweep' = IF fetched THEN "extract" ELSE "raised"
    /\ UNCHANGED <<slugs, filter_codes, url, start_page, end_page, pg, counts,
                   tickers, sym, rendered, runs, disk, failed, finished,
                   sessionVars, llmVars, pureVars>>

\* the replies the model gives for a listing page: a failing call, text that is
\* not JSON, or a JSON array of n ticker strings
TickerReplies ==
    {[kind |-> "error", n |-> 0], [kind |-> "undecodable", n |-> 0]}
        \cup {[kind |-> "array", n |-> n] : n \in TickerCounts}

\* _extract_tickers(html): the tickers of the reply; [] when it does not decode;
\* an error of the model call is not caught
_extract_tickers(reply) ==
    IF reply.kind = "error" THEN -1
    ELSE IF reply.kind = "undecodable" THEN 0
    ELSE reply.n

\* an empty page that lets the sweep go on with the next page
empty_page_continues(k, p) ==
    IF k = 0 THEN [sweep |-> "page", pg |-> p + 1]
    ELSE [sweep |-> "tickers", pg |-> p]

\* `if not tickers: break`, otherwise the loop over the page's tickers
on_tickers(k, p) ==
    IF k = 0 THEN [sweep |-> "returned", pg |-> p]
    ELSE [sweep |-> "tickers", pg |-> p]

\* tickers = await _extract_tickers(html) and the empty-page test
sweep_extract ==
    /\ sweep = "extract"
    /\ \E reply \in TickerReplies :
        LET k == _extract_tickers(reply)
        IN IF k < 0
           THEN sweep' = "raised" /\ UNCHANGED <<pg, counts, tickers, sym>>
           ELSE /\ counts' = Append(counts, k)
                /\ tickers' = k
                /\ sym' = 1
                /\ sweep' = on_tickers(k, pg).sweep
                /\ pg' = on_tickers(k, pg).pg
    /\ UNCHANGED <<slugs, filter_codes, url, start_page, end_page, rendered,
                   runs, sessions, disk, failed, finished, sessionVars, llmVars,
                   pureVars>>

\* a short page that lets the sweep go on with the next page
short_page_continues(k, p) == [sweep |-> "page", pg |-> p + 1]

\* last_page = len(tickers) < ROW_STEP; after the page's tickers,
\* `if last_page: break`, otherwise the next page
after_page(k, p) ==
    IF k < ROW_STEP THEN [sweep |-> "returned", pg |-> p]
    ELSE [sweep |-> "page", pg |-> p + 1]

\* the ticker scraped after the one at index i of the page's list, with one
\* ticker passed over
next_ticker_skips(i) == i + 2

\* `for sym in tickers`: the ticker after the one at index i
next_ticker(i) == i + 1

\* the sweep after a company run's error, had the loop caught it
company_raised_caught == "tickers"

\* `data = await scrape_company(...)` stands in no try block: the error of a
\* run leaves both loops and scrape_screener_pages
company_raised == "raised"

\* `for sym in tickers: data = await scrape_company(symbol=sym, ...)`: the run
\* starts and launches its browser
sweep_company ==
    /\ sweep = "tickers"
    /\ runs' = Append(runs, <<pg, sym>>)
    /\ \E launched \in BOOLEAN :
        IF launched
        THEN /\ sessions' = sessions \cup {<<"company", pg, sym>>}
             /\ sweep' = "company"
             /\ UNCHANGED failed
        ELSE /\ sweep' = company_raised
             /\ failed' = <<pg, sym>>
             /\ UNCHANGED sessions
    /\ UNCHANGED <<slugs, filter_codes, url, start_page, end_page, pg, counts,
                   tickers, sym, rendered, disk, finished, sessionVars, llmVars,
                   pureVars>>

\* the run returns or raises, its session is gone either way; a run that
\* returns has saved its sections, a run that raises may have saved some; the
\* error of a run is not caught; after the last ticker, the last-page test
sweep_company_done ==
    /\ sweep = "company"
    /\ sessions' = session_exit(sessions, <<"company", pg, sym>>)
    /\ \E returned, saved \in BOOLEAN :
        IF ~returned
        THEN /\ sweep' = company_raised
             /\ failed' = <<pg, sym>>
             /\ disk' = IF saved THEN disk \cup {<<pg, sym>>} ELSE disk
             /\ UNCHANGED <<pg, sym, finished>>
        ELSE /\ disk' = disk \cup {<<pg, sym>>}
             /\ finished' = finished \cup {<<pg, sym>>}
             /\ UNCHANGED failed
             /\ IF sym < tickers
                THEN sym' = next_ticker(sym) /\ sweep' = "tickers" /\ UNCHANGED pg
                ELSE /\ sym' = sym
                     /\ sweep' = after_page(tickers, pg).sweep
                     /\ pg' = after_page(tickers, pg).pg
    /\ UNCHANGED <<slugs, filter_codes, url, start_page, end_page, counts,
                   tickers, rendered, runs, sessionVars, llmVars, pureVars>>

SweepInit ==
    /\ slugs \in [{"exch", "idx", "sector", "industry", "country"} -> SlugKinds]
    /\ filter_codes = <<>> /\ url = <<>>
    /\ start_page \in 1..MaxPage /\ end_page \in 1..MaxPage
    /\ pg = 0 /\ tickers = 0 /\ sym = 0
    /\ counts = <<>> /\ rendered = <<>> /\ runs = <<>> /\ sweep = "filters"
    /\ sessions = {} /\ disk = {} /\ failed = <<>> /\ finished = {}

InitSweep == SessionIdle /\ SweepInit /\ LlmIdle /\ PureIdle

NextSweep ==
    \/ sweep_filters
    \/ sweep_page
    \/ sweep_fetch
    \/ sweep_extract
    \/ sweep_company
    \/ sweep_company_done

SpecSweep == InitSweep /\ [][NextSweep]_vars

Range(q) == {q[i] : i \in 1..Len(q)}

\* C7: a page that yields no ticker is the last page rendered, no company run
\* is started for it, and the sweep has returned, not raised.
C7_EmptyPageStopsSweep ==
    \A i \in 1..Len(counts) :
        counts[i] = 0 =>
            /\ i = Len(rendered)
            /\ sweep = "returned"
            /\ ~\E r \in Range(runs) : r[1] = rendered[i]

\* the second of three requested pages is empty, after a full first page whose
\* twenty tickers were all scraped
C7_Witness ==
    /\ start_page = 1 /\ end_page = 3
    /\ counts = <<ROW_STEP, 0>> /\ Len(runs) = ROW_STEP /\ sweep = "returned"

Texts == UNION {[1..n -> Lexemes] : n \in 0..MaxLen}

\* the snippets: empty, whitespace only, HTML, HTML after whitespace
Snippets == {<<>>, <<"s">>, <<"x">>, <<"s", "x">>}

\* the JSON arrays of at most MaxItems row objects, bare or with whitespace
\* around them
RECURSIVE ItemLists(_)
ItemLists(n) ==
    IF n = 1 THEN JsonObjects
    ELSE {o \o <<",">> \o rest : o \in JsonObjects, rest \in ItemLists(n - 1)}

JsonArrays ==
    LET bare == {<<"[", "]">>}
                \cup {<<"[">> \o items \o <<"]">> :
                        items \in UNION {ItemLists(n) : n \in 1..MaxItems}}
    IN bare \cup {<<"s">> \o a \o <<"s">> : a \in bare}

\* reply = await llm.ainvoke(prompt): a text, a JSON array of row objects, or
\* the call raises
ModelReplies == Texts \cup JsonArrays \cup {ModelError}

\* one call of extract_with_llm(html_snippet, prompt)
llm_extract_with_llm ==
    /\ llm_fn = "none"
    /\ LET r == extract_with_llm(llm_snippet, llm_reply)
       IN /\ llm_invoked' = r.invoked
          /\ llm_text' = r.text
          /\ llm_value' = IF r.raised THEN "raise" ELSE "text"
    /\ llm_fn' = "extract_with_llm"
    /\ UNCHANGED <<llm_snippet, llm_reply, sessionVars, sweepVars, pureVars>>

\* one call of _gpt_json(snippet, prompt)
llm_gpt_json ==
    /\ llm_fn = "none"
    /\ LET r == _gpt_json(llm_snippet, llm_reply)
       IN /\ llm_invoked' = r.invoked
          /\ llm_value' = r.value
    /\ llm_fn' = "_gpt_json"
    /\ UNCHANGED <<llm_snippet, llm_reply, llm_text, sessionVars, sweepVars, pureVars>>

\* extract_patent_count(html): the reply of extract_with_llm, trimmed; when it
\* still holds a fenced block, the trimmed content of the first one; nothing is
\* caught
extract_patent_count(snippet, reply) ==
    LET r == extract_with_llm(snippet, reply)
        text == strip(r.text)
        opens == {i \in 1..Len(text) :
                     text[i] \in Fences /\ \E j \in i + 1..Len(text) : text[j] \in Fences}
        o == CHOOSE i \in opens : \A k \in opens : i <= k
        c == CHOOSE j \in o + 1..Len(text) :
                 text[j] \in Fences /\ \A k \in o + 1..j - 1 : text[k] \notin Fences
    IN IF r.raised THEN [raised |-> TRUE, text |-> <<>>]
       ELSE IF opens = {} THEN [raised |-> FALSE, text |-> text]
       ELSE [raised |-> FALSE, text |-> strip(SubSeq(text, o + 1, c - 1))]

\* one call of extract_company_info(html): the snippet is the bio element of
\* the page, or "" when the page has none
llm_extract_company_info ==
    /\ llm_fn = "none"
    /\ \E present \in BOOLEAN :
        /\ llm_snippet = subtree(present)
        /\ llm_value' = extract_company_info(present, llm_reply)
        /\ llm_invoked' = present
    /\ llm_fn' = "extract_company_info"
    /\ UNCHANGED <<llm_snippet, llm_reply, llm_text, sessionVars, sweepVars, pureVars>>

\* one call of extract_patent_count(html)
llm_extract_patent_count ==
    /\ llm_fn = "none"
    /\ LET r == extract_patent_count(llm_snippet, llm_reply)
       IN /\ llm_text' = r.text
          /\ llm_value' = IF r.raised THEN "raise" ELSE "text"
    /\ llm_invoked' = TRUE
    /\ llm_fn' = "extract_patent_count"
    /\ UNCHANGED <<llm_snippet, llm_reply, sessionVars, sweepVars, pureVars>>

\* _extract_tickers(html) on the snippet and the reply: extract_with_llm is
\* called whatever the snippet is and outside the try block; a reply that does
\* not decode gives []
_extract_tickers_llm(snippet, reply) ==
    LET r == extract_with_llm(snippet, reply)
    IN IF r.raised THEN [invoked |-> r.invoked, value |-> "raise"]
       ELSE IF json_loads(r.text) = "value"
       THEN [invoked |-> r.invoked, value |-> "value"]
       ELSE [invoked |-> r.invoked, value |-> "empty"]

\* one call of _extract_tickers(html): the snippet is the screener table of
\* the page, or "" when the page has none
llm_extract_tickers ==
    /\ llm_fn = "none"
    /\ \E present \in BOOLEAN :
        /\ llm_snippet = subtree(present)
        /\ LET r == _extract_tickers_llm(llm_snippet, llm_reply)
           IN /\ llm_invoked' = r.invoked
              /\ llm_value' = r.value
    /\ llm_fn' = "_extract_tickers"
    /\ UNCHANGED <<llm_snippet, llm_reply, llm_text, sessionVars, sweepVars, pureVars>>

LlmInit ==
    /\ llm_fn = "none"
    /\ llm_snippet \in Snippets
    /\ llm_reply \in ModelReplies
    /\ llm_invoked = FALSE /\ llm_text = <<>> /\ llm_value = "None"

InitLLM == SessionIdle /\ SweepIdle /\ LlmInit /\ PureIdle

NextLLM ==
    \/ llm_extract_with_llm
    \/ llm_gpt_json
    \/ llm_extract_company_info
    \/ llm_extract_patent_count
    \/ llm_extract_tickers

SpecLLM == InitLLM /\ [][NextLLM]_vars

\* a text made of whitespace only (the empty text included)
Blank(t) == \A i \in 1..Len(t) : t[i] = "s"

\* u is t without its leading and trailing whitespace
Trimmed(t, u) ==
    \E a \in 1..Len(t) + 1, b \in 0..Len(t) :
        /\ u = SubSeq(t, a, b)
        /\ \A i \in 1..Len(t) : (i < a \/ i > b) => t[i] = "s"
        /\ u # <<>> => (u[1] # "s" /\ u[Len(u)] # "s")

\* C9 as stated: a call of extract_with_llm with an empty or whitespace-only
\* snippet does not invoke the model and yields no result.
C9_ExtractFailsClosed ==
    (llm_fn = "extract_with_llm" /\ Blank(llm_snippet)) =>
        ~llm_invoked /\ llm_value = NoResult

\* C9 amended: the guard is in _gpt_json: called with an empty or
\* whitespace-only snippet it does not invoke the model and yields no result;
\* extract_with_llm invokes the model whatever the snippet is.
C9_GptJsonFailsClosed ==
    /\ (llm_fn = "_gpt_json" /\ Blank(llm_snippet)) =>
           ~llm_invoked /\ llm_value = NoResult
    /\ llm_fn = "extract_with_llm" => llm_invoked

\* _gpt_json called with a whitespace-only snippet and a model that would have
\* replied with a decodable object
C9_Witness ==
    /\ llm_fn = "_gpt_json" /\ llm_snippet = <<"s">>
    /\ llm_reply = <<"{", "x", "}">> /\ llm_value = NoResult

C11_ExtractorsNeverPropagate ==
    llm_fn \in {"_gpt_json", "extract_company_info", "extract_patent_count"}
        => llm_value # "raise"

(***************************************************************************)
(* SpecTable: _bs_statement_to_df on bounded statements tables.            *)
(***************************************************************************)
MaxRows == 3
MaxCells == 5

\* a cell is named by its place in the page: <<row, column>>; the labels and
\* values the parser adds are cells of row 0
Metric == <<0, 0>>
extracted_at == <<0, 1>>
NaN == <<0, 2>>
now_isoformat == <<0, 3>>

\* the <td> cells of the r-th <tr>, n of them (none for a row of <th> only)
tds(r, n) == [c \in 1..n |-> <<r, c>>]

\* the html handed to the parser: None, "", a page without the statements
\* table, or a page whose table has up to MaxRows rows of up to MaxCells cells
Htmls ==
    {[kind |-> k, trs |-> <<>>] : k \in {"None", "empty", "notable"}}
        \cup {[kind |-> "table", trs |-> [r \in 1..Len(w) |-> tds(r, w[r])]] :
                 w \in UNION {[1..n -> 0..MaxCells] : n \in 0..MaxRows}}

\* [td.get_text() for i, td in enumerate(tds) if i != 1]
cleaned(row) ==
    IF Len(row) <= 1 THEN row ELSE <<row[1]>> \o SubSeq(row, 3, Len(row))

\* the loop over tbl.find_all("tr"): rows without <td> are passed over, rows of
\* more than two kept cells are appended
RECURSIVE rows(_)
rows(trs) ==
    IF trs = <<>> THEN <<>>
    ELSE IF Head(trs) = <<>> THEN rows(Tail(trs))
    ELSE IF Len(cleaned(Head(trs))) > 2
    THEN <<cleaned(Head(trs))>> \o rows(Tail(trs))
    ELSE rows(Tail(trs))

\* the widest row of a list of rows
width(body) ==
    IF body = <<>> THEN 0
    ELSE CHOOSE n \in {Len(body[i]) : i \in 1..Len(body)} :
             \A i \in 1..Len(body) : Len(body[i]) <= n

\* pd.DataFrame(body, columns=header): shorter rows are filled up to the widest
\* one; ValueError when the widest row and the header differ in length
DataFrame(body, header) ==
    IF body # <<>> /\ width(body) # Len(header)
    THEN [kind |-> "ValueError", columns |-> <<>>, rows |-> <<>>]
    ELSE [kind |-> "df", columns |-> header,
          rows |-> [i \in 1..Len(body) |->
                       body[i] \o [k \in 1..Len(header) - Len(body[i]) |-> NaN]]]

\* df.insert(1, "extracted_at", datetime.now().isoformat())
insert_extracted_at(df) ==
    IF df.kind # "df" THEN df
    ELSE [kind |-> "df",
          columns |-> <<df.columns[1], extracted_at>> \o Tail(df.columns),
          rows |-> [i \in 1..Len(df.rows) |->
                       <<df.rows[i][1], now_isoformat>> \o Tail(df.rows[i])]]

\* _bs_statement_to_df(html) on the cells of the page
bs_statement_to_df(html) ==
    IF html.kind \in {"None", "empty", "notable"} \/ rows(html.trs) = <<>>
    THEN [kind |-> "None", columns |-> <<>>, rows |-> <<>>]
    ELSE LET header == <<Metric>> \o Tail(Head(rows(html.trs)))
             body == Tail(rows(html.trs))
         IN insert_extracted_at(DataFrame(body, header))

\* one call of _bs_statement_to_df(html)
table_to_df ==
    /\ tbl_df.kind = "idle"
    /\ tbl_df' = bs_statement_to_df(tbl_html)
    /\ UNCHANGED <<tbl_html, sessionVars, sweepVars, llmVars, patentVars,
                   storeVars, cliVars, widgetVars>>

TableInit ==
    /\ tbl_html \in Htmls
    /\ tbl_df = [kind |-> "idle", columns |-> <<>>, rows |-> <<>>]

InitTable ==
    /\ SessionIdle /\ SweepIdle /\ LlmIdle
    /\ TableInit /\ PatentIdle /\ StoreIdle /\ CliIdle /\ WidgetIdle

NextTable == table_to_df

SpecTable == InitTable /\ [][NextTable]_vars

\* C12 as stated: the second cell of every row is dropped and rows left with two
\* or fewer cells are discarded; without html, table or qualifying row the
\* result is "no result"; otherwise the columns are Metric, extracted_at and the
\* rest of the first qualifying row, and the data rows are exactly the other
\* qualifying rows in their order (each with its extracted_at value).
C12_StatementTableParsed ==
    tbl_df.kind # "idle" =>
        LET trs == tbl_html.trs
            kept(r) == [k \in 1..Len(trs[r]) - 1 |->
                           IF k = 1 THEN <<r, 1>> ELSE <<r, k + 1>>]
            qual == {r \in 1..Len(trs) : Len(trs[r]) - 1 > 2}
            nth(i) == CHOOSE r \in qual : Cardinality({q \in qual : q < r}) = i - 1
        IN IF tbl_html.kind # "table" \/ qual = {}
           THEN tbl_df.kind = "None"
           ELSE /\ tbl_df.kind = "df"
                /\ tbl_df.columns = <<Metric, extracted_at>> \o Tail(kept(nth(1)))
                /\ Len(tbl_df.rows) = Cardinality(qual) - 1
                /\ \A i \in 1..Len(tbl_df.rows) :
                       tbl_df.rows[i] =
                           <<kept(nth(i + 1))[1], now_isoformat>>
                               \o Tail(kept(nth(i + 1)))

\* C13: the URL of a rendered page N is the base URL of the filters, with no r=
\* parameter, when N = 1, and the base URL followed by r=(N-1)*20+1 when N > 1:
\* r=21 for page 2, r=41 for page 3.
C13_PageUrlOffset ==
    rendered # <<>> =>
        LET N == rendered[Len(rendered)]
            base == _build_base_url(filter_codes)
        IN /\ N = 1 => (url = base /\ "&r=" \notin Range(url))
           /\ N > 1 => url = base \o <<"&r=", ToString((N - 1) * 20 + 1)>>
           /\ N = 2 => url[Len(url)] = "21"
           /\ N = 3 => url[Len(url)] = "41"

\* the third page of a sweep filtered by exchange and country
C13_Witness ==
    /\ rendered = <<1, 2, 3>>
    /\ filter_codes = <<"exch_nasd", "geo_usa">>
    /\ url = <<"https://finviz.com/screener.ashx?v=111", "&ft=4&f=",
               "exch_nasd", ",", "geo_usa", "&r=", "41">>

\* C19 as stated: with an invalid exchange, index, sector, industry or country
\* slug the sweep raises before any listing page is rendered and before any
\* company run starts.
C19_InvalidSlugRaisesEagerly ==
    (\E a \in DOMAIN slugs : slugs[a] = "invalid") =>
        /\ rendered = <<>> /\ runs = <<>>
        /\ sweep # "returned"

(***************************************************************************)
(* SpecPatents: scrape_patents on bounded counter phrases.                 *)
(***************************************************************************)
MaxPhrase == 4

\* the characters of a phrase: digits, the separators, a space, a letter
Digits == {"0", "1", "7"}
Separators == {".", ","}
PhraseChars == Digits \cup Separators \cup {" ", "w"}

\* the literal phrase "No results found"
NoResultsFound == <<"No results found">>

\* the phrases extract_patent_count can return
Phrases == UNION {[1..n -> PhraseChars] : n \in 0..MaxPhrase}

\* str.replace(old, ""): the text without the characters of a set
RECURSIVE without(_, _)
without(t, cs) ==
    IF t = <<>> THEN <<>>
    ELSE IF Head(t) \in cs THEN without(Tail(t), cs)
    ELSE <<Head(t)>> \o without(Tail(t), cs)

\* the longest prefix of t made of digits and separators
RECURSIVE run(_)
run(t) ==
    IF t = <<>> \/ Head(t) \notin Digits \cup Separators THEN <<>>
    ELSE <<Head(t)>> \o run(Tail(t))

\* re.search(r"[\d\.,]+", text): the leftmost run of digits and separators, as
\* long as it can be, or no match
RECURSIVE re_search_number(_)
re_search_number(t) ==
    IF t = <<>> THEN [matched |-> FALSE, group |-> <<>>]
    ELSE IF Head(t) \in Digits \cup Separators
    THEN [matched |-> TRUE, group |-> run(t)]
    ELSE re_search_number(Tail(t))

digit(c) == IF c = "0" THEN 0 ELSE IF c = "1" THEN 1 ELSE 7

\* int(text) for a text of digits, most significant first; acc is the value of
\* the digits read so far
RECURSIVE int_from(_, _)
int_from(t, acc) ==
    IF t = <<>> THEN acc ELSE int_from(Tail(t), acc * 10 + digit(Head(t)))

\* int(text): ValueError for the empty text
int(t) ==
    IF t = <<>> THEN [raised |-> TRUE, value |-> 0]
    ELSE [raised |-> FALSE, value |-> int_from(t, 0)]

\* the record scrape_patents returns, or the error it raises
patents_result(phrase, m) ==
    IF ~m.matched
    THEN [state |-> "returned", count_phrase |-> NoResultsFound, count |-> 0]
    ELSE LET count_int == int(without(m.group, Separators))
         IN IF count_int.raised
            THEN [state |-> "raised", count_phrase |-> <<>>, count |-> 0]
            ELSE IF count_int.value = 0
            THEN [state |-> "returned", count_phrase |-> NoResultsFound,
                  count |-> 0]
            ELSE [state |-> "returned", count_phrase |-> phrase,
                  count |-> count_int.value]

\* scrape_patents searching the phrase with its spaces left in
scrape_patents_spaces_kept(phrase) ==
    patents_result(phrase, re_search_number(phrase))

\* scrape_patents(query, start_date, end_date), from the phrase on:
\* num_match = re.search(r"[\d\.,]+", phrase.replace(" ", "")), count_int =
\* int(group without "." and ",") or None, and the "No results found" default
\* when count_int is None or 0
scrape_patents(phrase) ==
    patents_result(phrase, re_search_number(without(phrase, {" "})))

\* one call of scrape_patents
patents_scrape ==
    /\ pat_result.state = "idle"
    /\ pat_result' = scrape_patents(pat_phrase)
    /\ UNCHANGED <<pat_phrase, sessionVars, sweepVars, llmVars, tableVars,
                   storeVars, cliVars, widgetVars>>

PatentInit ==
    /\ pat_phrase \in Phrases
    /\ pat_result = [state |-> "idle", count_phrase |-> <<>>, count |-> 0]

InitPatents ==
    /\ SessionIdle /\ SweepIdle /\ LlmIdle
    /\ TableIdle /\ PatentInit /\ StoreIdle /\ CliIdle /\ WidgetIdle

NextPatents == patents_scrape

SpecPatents == InitPatents /\ [][NextPatents]_vars

\* 10 to the power n
RECURSIVE Pow10(_)
Pow10(n) == IF n = 0 THEN 1 ELSE 10 * Pow10(n - 1)

\* the first run of digits and separators of a text, as a pair of positions,
\* <<0, 0>> when the text has none
FirstRun(t) ==
    LET isNum(i) == t[i] \in Digits \cup Separators
        starts == {i \in 1..Len(t) : isNum(i)}
        a == CHOOSE i \in starts : \A k \in starts : i <= k
        ends == {j \in a..Len(t) : \A k \in a..j : isNum(k)}
        b == CHOOSE j \in ends : \A k \in ends : k <= j
    IN IF starts = {} THEN <<0, 0>> ELSE <<a, b>>

\* the number written by the digits of t[a..b], the other characters left out
NumberOf(t, a, b) ==
    LET ds == SelectSeq(SubSeq(t, a, b), LAMBDA c : c \in Digits)
        term[i \in 0..Len(ds)] ==
            IF i = 0 THEN 0
            ELSE term[i - 1] + digit(ds[i]) * Pow10(Len(ds) - i)
    IN term[Len(ds)]

HasDigit(t, a, b) == \E i \in a..b : t[i] \in Digits

\* C14 as stated: the count returned is the number formed by the digits of the
\* first run of digits and separators of the phrase, whatever follows that run.
C14_CountOfFirstRun ==
    LET r == FirstRun(pat_phrase)
    IN (pat_result.state = "returned" /\ r # <<0, 0>>) =>
           pat_result.count = NumberOf(pat_phrase, r[1], r[2])

\* C14 amended: the run is taken from the phrase with its spaces removed, so
\* groups of digits that only spaces separate are one number; the count
\* returned is the number formed by the digits of that run, whatever follows
\* it, and the phrase is returned as it is unless the count is 0.
C14_CountOfFirstRunWithoutSpaces ==
    LET ns == SelectSeq(pat_phrase, LAMBDA c : c # " ")
        r == FirstRun(ns)
    IN (pat_result.state = "returned" /\ r # <<0, 0>>) =>
           /\ HasDigit(ns, r[1], r[2])
           /\ pat_result.count = NumberOf(ns, r[1], r[2])
           /\ pat_result.count # 0 => pat_result.count_phrase = pat_phrase

\* "1 07w": the run is 107 once the space is removed; the letter ends it
C14_Witness ==
    /\ pat_phrase = <<"1", " ", "0", "7">>
    /\ pat_result.state = "returned" /\ pat_result.count = 107

\* C15 as stated: scrape_patents always completes with a record whose count is
\* an integer, and for a phrase without digits (separators included) the
\* phrase returned is "No results found" and the count 0.
C15_NeverNullCount ==
    pat_result.state # "idle" =>
        /\ pat_result.state = "returned"
        /\ pat_result.count \in Nat
        /\ (\A i \in 1..Len(pat_phrase) : pat_phrase[i] \notin Digits) =>
               /\ pat_result.count_phrase = NoResultsFound
               /\ pat_result.count = 0

(***************************************************************************)
(* SpecStore: save_company_data, its files and the clock.                  *)
(***************************************************************************)
MaxClock == 1

Symbols == {"AAPL", "MSFT"}

\* the data maps and switch sets of a call: nothing, one section, all sections
StoreSets == {S \in SUBSET Sections : Cardinality(S) <= 1} \cup {Sections}

\* the sections in the order save_company_data handles them
WriteOrder == <<"metrics", "insiders", "info", "managers", "funds", "ratings",
                "news", "income", "balance", "cash", "holdings_breakdown",
                "top10_holdings">>

\* _timestamp(): datetime.now() formatted to the second
_timestamp(clock) == clock

\* base = f"{out_dir}/{prefix}_{symbol}_{ts}"
base(prefix, symbol, ts) == [prefix |-> prefix, symbol |-> symbol, ts |-> ts]

\* a section test that looks at the switch only
writes_flag_only(sec, dat, switches) == sec \in switches

\* `if save_<sec> and "<sec>" in data`
writes(sec, dat, switches) == sec \in switches /\ sec \in dat

\* the twelve section blocks of save_company_data, in order: the files written
RECURSIVE write_sections(_, _, _, _, _)
write_sections(secs, dat, symbol, switches, ts) ==
    IF secs = <<>> THEN {}
    ELSE (IF writes(Head(secs), dat, switches)
          THEN {base(Head(secs), symbol, ts)} ELSE {})
             \cup write_sections(Tail(secs), dat, symbol, switches, ts)

\* one second passes
store_tick ==
    /\ st_clock < MaxClock
    /\ st_clock' = st_clock + 1
    /\ UNCHANGED <<st_call, st_written, sessionVars, sweepVars,
                   llmVars, tableVars, patentVars, cliVars, widgetVars>>

\* one call of save_company_data(data, symbol, save_*...): ts = _timestamp(),
\* then the section blocks
store_save ==
    /\ \E symbol \in Symbols, dat \in StoreSets, switches \in StoreSets :
        LET ts == _timestamp(st_clock)
        IN /\ st_call' = [symbol |-> symbol, data |-> dat,
                          switches |-> switches, ts |-> ts]
           /\ st_written' = write_sections(WriteOrder, dat, symbol, switches, ts)
    /\ UNCHANGED <<st_clock, sessionVars, sweepVars, llmVars, tableVars,
                   patentVars, cliVars, widgetVars>>

StoreInit ==
    /\ st_clock = 0 /\ st_written = {}
    /\ st_call = [symbol |-> "none", data |-> {}, switches |-> {}, ts |-> 0]

InitStore ==
    /\ SessionIdle /\ SweepIdle /\ LlmIdle
    /\ TableIdle /\ PatentIdle /\ StoreInit /\ CliIdle /\ WidgetIdle

NextStore ==
    \/ store_tick
    \/ store_save

SpecStore == InitStore /\ [][NextStore]_vars

\* C16 as stated: two consecutive saves never write the same file: no file of
\* a save is written again (and so replaced) by the save that follows it.
C16_NeverOverwrites ==
    [][st_call' # st_call => st_written \cap st_written' = {}]_vars

full_sweep(args) ==
    ~\E f \in {"metrics", "insiders", "info", "managers", "funds", "ratings",
               "news", "holdings_breakdown", "top10_holdings", "income",
               "balance", "cash"} : f \in args

\* the do_* arguments with the profile swept by default as well
do_flags_info_swept(args) ==
    {s \in Sections : s \in args \/ (s # "news" /\ full_sweep(args))}

\* the do_* arguments of the scrape_screener_pages call: `args.x or full_sweep`
\* for every section but info and news, which are `args.info` and `args.news`
do_flags_screener(args) ==
    {s \in Sections :
        IF s \in {"info", "news"} THEN s \in args
        ELSE s \in args \/ full_sweep(args)}

\* the do_* arguments of the scrape_company call of the symbol loop: the same
\* expressions, written a second time
do_flags_symbols(args) ==
    {s \in Sections :
        IF s \in {"info", "news"} THEN s \in args
        ELSE s \in args \/ full_sweep(args)}

\* run_pipeline with --screener
cli_screener ==
    /\ cli_mode = "none"
    /\ cli_mode' = "screener"
    /\ cli_enabled' = do_flags_screener(cli_args)
    /\ UNCHANGED <<cli_args, sessionVars, sweepVars, llmVars, tableVars,
                   patentVars, storeVars, widgetVars>>

\* run_pipeline with symbols
cli_symbols ==
    /\ cli_mode = "none"
    /\ cli_mode' = "symbols"
    /\ cli_enabled' = do_flags_symbols(cli_args)
    /\ UNCHANGED <<cli_args, sessionVars, sweepVars, llmVars, tableVars,
                   patentVars, storeVars, widgetVars>>

CliInit == cli_mode = "none" /\ cli_args \in SUBSET Sections /\ cli_enabled = {}

InitCli ==
    /\ SessionIdle /\ SweepIdle /\ LlmIdle
    /\ TableIdle /\ PatentIdle /\ StoreIdle /\ CliInit /\ WidgetIdle

NextCli ==
    \/ cli_screener
    \/ cli_symbols

SpecCli == InitCli /\ [][NextCli]_vars

\* C18: in both modes, without any dataset flag the sections enabled are exactly
\* metrics, insiders, managers, funds, ratings, holdings breakdown, top-10
\* holdings, income, balance and cash; with at least one flag they are exactly
\* the flagged ones.
C18_FullSweepDefault ==
    cli_mode \in {"screener", "symbols"} =>
        IF cli_args = {}
        THEN cli_enabled = {"metrics", "insiders", "managers", "funds",
                            "ratings", "holdings_breakdown", "top10_holdings",
                            "income", "balance", "cash"}
        ELSE cli_enabled = cli_args

\* a screener sweep started without any dataset flag
C18_Witness ==
    /\ cli_mode = "screener" /\ cli_args = {}
    /\ Cardinality(cli_enabled) = 10
    /\ "info" \notin cli_enabled /\ "news" \notin cli_enabled

\* C20: the two sub-views of the ownership widget are independent: with the
\* widget visible, the managers table is captured whenever its own tab click and
\* wait succeed, whatever happened to the funds, and the other way round; a run
\* that returns has attempted the managers whenever they are enabled, and a
\* funds result once saved stays in the result map.
C20_SubViewsIndependent ==
    /\ (own.visible /\ "managers" \in enabled /\ own.mo = "ok") => mgr_html
    /\ (own.visible /\ "funds" \in enabled /\ own.fo = "ok") => fund_html
    /\ (outcome = "returned" /\ "managers" \in enabled)
           => "managers" \in attempted
    /\ "funds" \in files => "funds" \in data

\* the funds sub-view timed out, the managers were captured, extracted, added
\* to the map and saved
C20_Witness ==
    /\ enabled = {"funds", "managers"}
    /\ own.visible /\ own.fo = "PWTimeout" /\ own.mo = "ok"
    /\ "funds" \notin data /\ "managers" \in data /\ "managers" \in files
    /\ outcome = "returned"

C22_OneSessionAtATime ==
    /\ Cardinality(sessions) <= 1
    /\ sweep \in {"extract", "tickers", "page"} => sessions = {}
    /\ sweep = "fetch" => sessions = {<<"listing", pg, 0>>}
    /\ sweep = "company" => sessions = {<<"company", pg, sym>>}

C22_Witness ==
    /\ sweep = "company"
    /\ Len(runs) >= 2
    /\ Len(rendered) >= 2
    /\ sessions = {<<"company", pg, sym>>}

\* ---------------------------------------------------------------------------
\* C23: pages are rendered in increasing page number from start_page and never
\* beyond end_page; within a page the company runs start in the order of the
\* ticker list, each only after the previous run has returned; no run of a
\* later page starts before every run of the page before it has finished.
C23_PagesAndTickersInOrder ==
    /\ \A i \in 1..Len(rendered) :
        rendered[i] = start_page + i - 1 /\ rendered[i] <= end_page
    /\ \A i \in 1..Len(runs) :
        /\ runs[i][1] \in Range(rendered)
        /\ i < Len(runs) => runs[i] \in finished
        /\ IF i = 1 \/ runs[i][1] # runs[i - 1][1]
           THEN /\ runs[i][2] = 1
                /\ i > 1 =>
                    /\ runs[i][1] > runs[i - 1][1]
                    /\ runs[i - 1][2] = counts[runs[i - 1][1] - start_page + 1]
           ELSE runs[i][2] = runs[i - 1][2] + 1

C23_Witness ==
    /\ Len(rendered) >= 2
    /\ Len(runs) >= 3
    /\ runs[Len(runs)][1] = rendered[Len(rendered)]
    /\ runs[1][1] # runs[Len(runs)][1]
    /\ \E i \in 2..Len(runs) : runs[i][1] = runs[i - 1][1]

\* ---------------------------------------------------------------------------
\* C25: an error escaping one ticker's company run propagates out of the
\* sweep: no later ticker of the page and no later page is processed, and the
\* sections persisted by the earlier tickers remain on disk.
C25_RunErrorEndsSweep ==
    failed # <<>> =>
        /\ sweep = "raised"
        /\ runs[Len(runs)] = failed
        /\ rendered[Len(rendered)] = failed[1]
        /\ sessions = {}
        /\ \A i \in 1..(Len(runs) - 1) : runs[i] \in disk

C25_Witness ==
    /\ failed # <<>>
    /\ Len(runs) >= 2
    /\ failed[2] < tickers
    /\ failed[1] < end_page
    /\ failed \in disk

\* ---------------------------------------------------------------------------
\* C24 as stated: every extractor that delegates to the model (those built on
\* _gpt_json, the profile extractor and the screener ticker extractor), called
\* on a document without its target subtree, does not call the model and
\* yields no result.
C24_AbsentSubtreeShortCircuits ==
    (llm_fn \in {"_gpt_json", "extract_company_info", "_extract_tickers"}
        /\ llm_snippet = <<>>)
        => ~llm_invoked

\* ---------------------------------------------------------------------------
\* C26: within one scrape_company run each section is persisted at most once,
\* a section is persisted only after it was added to the aggregate map in that
\* run, and a section whose extraction yielded no result is never persisted.
C26_PersistedOnceAfterAdded ==
    owner = "scrape_company" =>
        \A s \in Sections :
            /\ nwrites[s] <= 1
            /\ nwrites[s] = 1 <=> s \in files
            /\ s \in files => s \in data /\ s \in attempted
            /\ pending # "none" => pending \in data \ files

C26_Witness ==
    /\ owner = "scrape_company" /\ outcome = "returned"
    /\ Cardinality(files) = 2
    /\ \E s \in enabled \ {"info"} : s \in attempted \ data

\* ---------------------------------------------------------------------------
\* C27 as stated: a section is added to the aggregate map only when its
\* extraction yielded at least one data row or entry: an empty structure (an
\* empty row list, an empty metrics mapping, a statements table with a header
\* and no data rows) is treated as no result, neither added nor persisted.
C27_EmptyStructureIsNoResult ==
    owner = "scrape_company" =>
        /\ data \cap empties = {}
        /\ files \cap empties = {}
        /\ pending \notin empties

\* ---------------------------------------------------------------------------
\* C28 as stated: _bs_statement_to_df never raises: for every statements
\* table, also one whose qualifying rows differ in their number of cells from
\* the header row, it returns "no result" or a table.
C28_StatementParserNeverRaises ==
    tbl_df.kind # "idle" => tbl_df.kind \in {"None", "df"}

\* ---------------------------------------------------------------------------
\* C29 as stated: round trip of an unfenced reply: for every JSON value (an
\* object, or an array of row objects) that the model returns as its whole
\* reply without a fence, extract_with_llm returns a text that decodes back to
\* that value, and _gpt_json returns it rather than no result.
C29_UnfencedRoundTrip ==
    json_decode(llm_reply) # <<"JSONDecodeError">> =>
        /\ llm_fn = "extract_with_llm" =>
               json_decode(llm_text) = json_decode(llm_reply)
        /\ (llm_fn = "_gpt_json" /\ ~Blank(llm_snippet)) =>
               llm_value = json_loads(llm_reply)

(***************************************************************************)
(* SpecWidget: fetch_ownership_htmls step by step, with the page of the    *)
(* ownership widget running beside it: a tab click asks the page for the   *)
(* tab's table, and the page puts it on screen when it has it.             *)
(***************************************************************************)
\* the step after sub-view v: the managers after the funds when they are
\* needed, otherwise the return
after_view(v, need) ==
    IF v = "funds" /\ need[1] THEN "managers_click" ELSE "returned"

\* the guards of fetch_ownership_htmls, widget.is_visible() and _center
fetch_ownership_htmls_start ==
    /\ wdg_pc = "start"
    /\ \E visible \in BOOLEAN, c \in UiOutcomes :
        wdg_pc' = IF ~(wdg_need[1] \/ wdg_need[2]) THEN "returned"
                  ELSE IF ~visible THEN "returned"
                  ELSE IF _center(c) = "raise" THEN "raised"
                  ELSE IF wdg_need[2] THEN "funds_click"
                  ELSE "managers_click"
    /\ UNCHANGED <<wdg_need, wdg_view, wdg_req, wdg_funds, wdg_mgrs,
                   sessionVars, sweepVars, llmVars, tableVars, patentVars,
                   storeVars, cliVars>>

\* await _safe_click(widget.locator("button:has-text(...)").first): the page
\* gets the click and starts loading the tab's table, with the rows of the
\* table on screen taken away at once or left until the new ones are there; a
\* click that fails is caught and the sub-view is left None
fetch_ownership_htmls_click(v) ==
    /\ wdg_pc = v \o "_click"
    /\ \E o \in {"ok", "PWError"}, cleared \in BOOLEAN :
        IF o = "ok"
        THEN /\ wdg_req' = v
             /\ wdg_view' = IF cleared THEN "none" ELSE wdg_view
             /\ wdg_pc' = v \o "_wait"
        ELSE /\ wdg_pc' = after_view(v, wdg_need)
             /\ UNCHANGED <<wdg_req, wdg_view>>
    /\ UNCHANGED <<wdg_need, wdg_funds, wdg_mgrs,
                   sessionVars, sweepVars, llmVars, tableVars, patentVars,
                   storeVars, cliVars>>

\* await page.wait_for_selector("div.managers-and-funds table tbody tr",
\* timeout=5_000): over as soon as the widget's table has a row, whatever the
\* table; PWTimeout, caught, when no row shows up in time
fetch_ownership_htmls_wait(v) ==
    /\ wdg_pc = v \o "_wait"
    /\ wdg_pc' = IF wdg_view # "none" THEN v \o "_snapshot"
                  ELSE after_view(v, wdg_need)
    /\ UNCHANGED <<wdg_need, wdg_view, wdg_req, wdg_funds, wdg_mgrs,
                   sessionVars, sweepVars, llmVars, tableVars, patentVars,
                   storeVars, cliVars>>

\* table = await page.query_selector(...); html = await table.inner_html():
\* the table on screen at that moment
fetch_ownership_htmls_snapshot(v) ==
    /\ wdg_pc = v \o "_snapshot"
    /\ IF v = "funds"
       THEN wdg_funds' = wdg_view /\ UNCHANGED wdg_mgrs
       ELSE wdg_mgrs' = wdg_view /\ UNCHANGED wdg_funds
    /\ wdg_pc' = after_view(v, wdg_need)
    /\ UNCHANGED <<wdg_need, wdg_view, wdg_req,
                   sessionVars, sweepVars, llmVars, tableVars, patentVars,
                   storeVars, cliVars>>

\* the page, on its own: the table asked for by the last click is on screen
page_refresh ==
    /\ wdg_pc \notin {"idle", "returned", "raised"}
    /\ wdg_req # "none"
    /\ wdg_view' = wdg_req
    /\ wdg_req' = "none"
    /\ UNCHANGED <<wdg_pc, wdg_need, wdg_funds, wdg_mgrs,
                   sessionVars, sweepVars, llmVars, tableVars, patentVars,
                   storeVars, cliVars>>

WidgetInit ==
    /\ wdg_pc = "start"
    /\ wdg_need \in BOOLEAN \X BOOLEAN
    /\ wdg_view \in {"none", "funds", "managers"}
    /\ wdg_req \in (IF wdg_view = "none" THEN {"none", "funds", "managers"}
                     ELSE {"none"})
    /\ wdg_funds = "None" /\ wdg_mgrs = "None"

InitWidget ==
    /\ SessionIdle /\ SweepIdle /\ LlmIdle
    /\ TableIdle /\ PatentIdle /\ StoreIdle /\ CliIdle /\ WidgetInit

NextWidget ==
    \/ fetch_ownership_htmls_start
    \/ \E v \in Ownership : fetch_ownership_htmls_click(v)
    \/ \E v \in Ownership : fetch_ownership_htmls_wait(v)
    \/ \E v \in Ownership : fetch_ownership_htmls_snapshot(v)
    \/ page_refresh

SpecWidget == InitWidget /\ [][NextWidget]_vars

\* C30 as stated: with both sub-views requested, the managers snapshot is taken
\* only after the widget displays the Managers view: under every interleaving
\* of the tab click, the page's table refresh and the wait for rows, it is
\* never the Funds table left on screen by the funds step.
C30_ManagersSnapshotIsManagers ==
    (wdg_need = <<TRUE, TRUE>> /\ wdg_funds = "funds")
        => wdg_mgrs \in {"None", "managers"}
====
